---- MODULE Spec2Model ----
(***************************************************************************)
(* Model of the Nautilus autoincrement index                               *)
(* (src/solana/src/objects/record/index.rs).                               *)
(*                                                                         *)
(* NautilusIndexData is a map from table name to a u32 count; the          *)
(* NautilusIndex handle binds one in-memory copy of that map to the Index  *)
(* account, whose byte buffer holds the Borsh encoding of the map and      *)
(* whose lamports must cover the rent of that buffer.                      *)
(*                                                                         *)
(* A unit of work (one transaction of the ledger runtime) owns one handle: *)
(* it obtains it by new or load, calls get_count, get_next_count,          *)
(* add_record, create on it, and ends by committing or aborting; an abort  *)
(* (also: a panic) discards every account change the unit made.  The       *)
(* runtime locks the accounts a unit writes, so the units that use the     *)
(* Index account run one after the other.                                  *)
(***************************************************************************)
EXTENDS Integers, Sequences, FiniteSets, TLC

(***************************************************************************)
(* Bounds of the model.                                                    *)
(***************************************************************************)
\* Units of work committed over a run.
MaxTx == 2
\* add_record calls made by one unit of work.
MaxAdds == 2
\* Deposits made into the Index account from outside the program.
MaxDeposits == 1
\* transfer_lamports calls of one unit of work
MaxMoves == 1
\* Width of the record counter (u32 in the source), scaled so that the
\* increment at the maximum value is reached.
CountBits == 2

\* Table names, as UTF-8 bytes: "a" and "bc".
Tables == { <<97>>, <<98, 99>> }

\* u32 counter arithmetic is modulo U32Mod.
U32Mod == 2 ^ CountBits

\* u64 lamport arithmetic is modulo U64Mod (the width is scaled to what the
\* model checker's integers hold; every balance of the model stays below
\* half of it, as the lamport supply stays below half of 2^64).
U64Mod == 2 ^ 30

(***************************************************************************)
(* Option<u32>                                                             *)
(***************************************************************************)
NoCount == [some |-> FALSE, val |-> 0]
SomeCount(v) == [some |-> TRUE, val |-> v]

(***************************************************************************)
(* NautilusIndexData: index : HashMap<String, u32>, as a function whose    *)
(* domain is the set of registered table names.                            *)
(***************************************************************************)
EmptyIndex == [t \in {} |-> 0]

\* NautilusIndexData::get_count
data_get_count(index, table_name) ==
    IF table_name \in DOMAIN index
    THEN SomeCount(index[table_name])
    ELSE NoCount

\* get_next_count with a bug: the current count is returned for a present
\* table.
data_get_next_count_current(index, table_name, checks) ==
    IF table_name \in DOMAIN index
    THEN [panic |-> FALSE, val |-> index[table_name]]
    ELSE [panic |-> FALSE, val |-> 1]

\* NautilusIndexData::get_next_count: count + 1 on a u32.  The result is
\* [panic, val]: with overflow checks the addition panics at the maximum,
\* without them it wraps.
data_get_next_count(index, table_name, checks) ==
    IF table_name \in DOMAIN index
    THEN IF index[table_name] + 1 >= U32Mod
         THEN [panic |-> checks, val |-> (index[table_name] + 1) % U32Mod]
         ELSE [panic |-> FALSE, val |-> index[table_name] + 1]
    ELSE [panic |-> FALSE, val |-> 1]

\* data_add_record with a bug: the insertion of a new table resets the
\* counts of the tables already there.
data_add_record_resets_others(index, table_name, checks) ==
    IF table_name \in DOMAIN index
    THEN LET next == (index[table_name] + 1) % U32Mod
             over == index[table_name] + 1 >= U32Mod
         IN  IF over /\ checks
             THEN [panic |-> TRUE, index |-> index, val |-> 0]
             ELSE [panic |-> FALSE,
                   index |-> [index EXCEPT ![table_name] = next],
                   val |-> next]
    ELSE [panic |-> FALSE,
          index |-> [t \in DOMAIN index \cup {table_name} |-> 1],
          val |-> 1]

\* add_record with a bug: a table that is absent is not inserted.
data_add_record_drops_insert(index, table_name, checks) ==
    IF table_name \in DOMAIN index
    THEN LET next == (index[table_name] + 1) % U32Mod
             over == index[table_name] + 1 >= U32Mod
         IN  IF over /\ checks
             THEN [panic |-> TRUE, index |-> index, val |-> 0]
             ELSE [panic |-> FALSE,
                   index |-> [index EXCEPT ![table_name] = next],
                   val |-> next]
    ELSE [panic |-> FALSE, index |-> index, val |-> 1]

\* NautilusIndexData::add_record: *count += 1 on a present table, insert 1
\* on an absent one.  The result is [panic, index, val].
data_add_record(index, table_name, checks) ==
    IF table_name \in DOMAIN index
    THEN LET next == (index[table_name] + 1) % U32Mod
             over == index[table_name] + 1 >= U32Mod
         IN  IF over /\ checks
             THEN [panic |-> TRUE, index |-> index, val |-> 0]
             ELSE [panic |-> FALSE,
                   index |-> [index EXCEPT ![table_name] = next],
                   val |-> next]
    ELSE [panic |-> FALSE,
          index |-> [t \in DOMAIN index \cup {table_name} |->
                        IF t = table_name THEN 1 ELSE index[t]],
          val |-> 1]

(***************************************************************************)
(* Borsh encoding of NautilusIndexData (derive(BorshSerialize,             *)
(* BorshDeserialize)): u32 LE entry count, then the entries in key order,  *)
(* each a string (u32 LE length, bytes) and a u32 LE count.                *)
(***************************************************************************)
LE4(n) == << n % 256, (n \div 256) % 256, (n \div 65536) % 256,
             (n \div 16777216) % 256 >>

RECURSIVE StrLess(_, _)
StrLess(a, b) ==
    IF b = <<>> THEN FALSE
    ELSE IF a = <<>> THEN TRUE
    ELSE IF Head(a) # Head(b) THEN Head(a) < Head(b)
    ELSE StrLess(Tail(a), Tail(b))

MinKey(S) == CHOOSE k \in S : \A j \in S \ {k} : StrLess(k, j)

RECURSIVE EncodeEntries(_, _)
EncodeEntries(index, S) ==
    IF S = {} THEN <<>>
    ELSE LET k == MinKey(S)
         IN  LE4(Len(k)) \o k \o LE4(index[k]) \o EncodeEntries(index, S \ {k})

\* BorshSerialize::try_to_vec
try_to_vec(index) ==
    LE4(Cardinality(DOMAIN index)) \o EncodeEntries(index, DOMAIN index)

\* Read a u32 LE at position pos (1-based) of bytes b.
HasU32(b, pos) == pos + 3 <= Len(b)
U32At(b, pos) ==
    b[pos] + 256 * b[pos + 1] + 65536 * b[pos + 2] + 16777216 * b[pos + 3]

\* String::from_utf8 on the names of the model, which are ASCII.
IsUtf8(s) == \A i \in 1 .. Len(s) : s[i] < 128

\* The n entries from position pos on; a repeated key keeps the later value
\* (the entries are collected into a HashMap).
RECURSIVE DecodeEntries(_, _, _, _)
DecodeEntries(b, pos, n, index) ==
    IF n = 0 THEN [ok |-> TRUE, pos |-> pos, index |-> index]
    ELSE IF ~HasU32(b, pos) THEN [ok |-> FALSE, pos |-> pos, index |-> index]
    ELSE LET len  == U32At(b, pos)
             from == pos + 4
             to   == pos + 3 + len
         IN  IF to > Len(b) \/ ~HasU32(b, to + 1)
             THEN [ok |-> FALSE, pos |-> pos, index |-> index]
             ELSE LET key == SubSeq(b, from, to)
                      val == U32At(b, to + 1)
                  IN  IF ~IsUtf8(key)
                      THEN [ok |-> FALSE, pos |-> pos, index |-> index]
                      ELSE DecodeEntries(b, to + 5, n - 1,
                              [t \in DOMAIN index \cup {key} |->
                                  IF t = key THEN val ELSE index[t]])

\* BorshDeserialize::try_from_slice: the whole slice must be consumed.
try_from_slice(b) ==
    IF ~HasU32(b, 1) THEN [ok |-> FALSE, index |-> EmptyIndex]
    ELSE LET r == DecodeEntries(b, 5, U32At(b, 1), EmptyIndex)
         IN  IF r.ok /\ r.pos = Len(b) + 1
             THEN [ok |-> TRUE, index |-> r.index]
             ELSE [ok |-> FALSE, index |-> EmptyIndex]

\* span with a bug: one byte too many.
span_plus_one(index) == Len(try_to_vec(index)) + 1

\* NautilusAccountInfo::span
span(index) == Len(try_to_vec(index))

(***************************************************************************)
(* The platform and the crate's collaborators the handle calls.            *)
(***************************************************************************)
\* Rent::minimum_balance(len): (ACCOUNT_STORAGE_OVERHEAD + len) *
\* lamports_per_byte_year * exemption_threshold, with the platform defaults.
minimum_balance(len) == (128 + len) * 6960

\* NautilusAccountInfo::required_rent: the minimum balance of the span of the
\* handle's data.
required_rent(index) == minimum_balance(span(index))

\* cpi::system::transfer(from, to, amount): atomic; fails when the payer
\* lacks the amount, else moves it.
transfer(from_lamports, to_lamports, amount) ==
    IF from_lamports < amount
    THEN [ok |-> FALSE, from |-> from_lamports, to |-> to_lamports]
    ELSE [ok |-> TRUE, from |-> from_lamports - amount,
          to |-> to_lamports + amount]

\* cpi::system::create_record(account, program_id, payer, system_program,
\* data): creates the account at the derived address, owned by the program,
\* funded for and holding the encoding of data.  Fails when the address is
\* occupied, the payer cannot cover the minimum balance, or the address
\* does not match the derivation.
create_record(acct, payer_lamports, data, address_ok) ==
    LET occupied == acct.owner = "program" \/ acct.lamports > 0
                    \/ Len(acct.data) > 0
        rent     == minimum_balance(span(data))
    IN  IF occupied \/ payer_lamports < rent \/ ~address_ok
        THEN [ok |-> FALSE, acct |-> acct, payer |-> payer_lamports]
        ELSE [ok |-> TRUE,
              acct |-> [owner |-> "program", lamports |-> rent,
                        data |-> try_to_vec(data)],
              payer |-> payer_lamports - rent]

Zeros(n) == [i \in 1 .. n |-> 0]

\* AccountInfo::realloc(new_len, zero_init = true): borrows the data
\* mutably, refuses a growth of more than MAX_PERMITTED_DATA_INCREASE
\* (10240) over the length at the start of the instruction, and truncates
\* or zero-extends the buffer.
realloc(data, new_len, original_len, borrowed) ==
    IF borrowed # "none" THEN [ok |-> FALSE, data |-> data]
    ELSE IF new_len = Len(data) THEN [ok |-> TRUE, data |-> data]
    ELSE IF new_len - original_len > 10240 THEN [ok |-> FALSE, data |-> data]
    ELSE IF new_len < Len(data)
         THEN [ok |-> TRUE, data |-> SubSeq(data, 1, new_len)]
         ELSE [ok |-> TRUE, data |-> data \o Zeros(new_len - Len(data))]

\* BorshSerialize::serialize into the slice data[..]: the bytes overwrite the
\* start of the buffer; a buffer too short takes what fits and fails.
serialize_into(data, bytes) ==
    IF Len(bytes) <= Len(data)
    THEN [ok |-> TRUE,
          data |-> bytes \o SubSeq(data, Len(bytes) + 1, Len(data))]
    ELSE [ok |-> FALSE, data |-> SubSeq(bytes, 1, Len(data))]

\* The amount with a bug: the whole required balance is asked of the payer.
rent_shortfall_is_required(required, lamports) == required

\* self.required_rent()? - self.lamports() of add_record: an unsigned
\* 64-bit subtraction, which wraps where the build does not panic.
rent_shortfall(required, lamports) ==
    (required - lamports + U64Mod) % U64Mod

(***************************************************************************)
(* NautilusIndex: the outcome of each operation of the handle, from the    *)
(* handle's data (index), the account, the fee payer's lamports and the    *)
(* state of the account's data RefCell at the call (borrowed).             *)
(***************************************************************************)
\* load with a bug: the bytes are decoded before the borrow is checked.
load_decodes_first(acct, borrowed) ==
    LET r == try_from_slice(acct.data)
    IN  IF ~r.ok
        THEN [status |-> "DeserializeDataFailed", index |-> EmptyIndex]
        ELSE IF borrowed = "mut"
        THEN [status |-> "LoadDataFailed", index |-> EmptyIndex]
        ELSE [status |-> "ok", index |-> r.index]

\* NautilusIndex::load
load(acct, borrowed) ==
    IF borrowed = "mut"
    THEN [status |-> "LoadDataFailed", index |-> EmptyIndex]
    ELSE LET r == try_from_slice(acct.data)
         IN  IF r.ok
             THEN [status |-> "ok", index |-> r.index]
             ELSE [status |-> "DeserializeDataFailed", index |-> EmptyIndex]

\* add_record with a bug: the buffer is resized and written before the
\* transfer, so a failed transfer leaves the new bytes in the account.
add_record_writes_first(index, acct, payer_lamports, table_name, original_len, borrowed, checks) ==
    LET d        == data_add_record(index, table_name, checks)
        required == required_rent(d.index)
        under    == required < acct.lamports
        amount   == rent_shortfall(required, acct.lamports)
        t        == transfer(payer_lamports, acct.lamports, amount)
        r        == realloc(acct.data, span(d.index), original_len, borrowed)
        w        == serialize_into(r.data, try_to_vec(d.index))
    IN  IF d.panic \/ (under /\ checks)
        THEN [status |-> "panic", val |-> 0, index |-> index, acct |-> acct,
              payer |-> payer_lamports, calls |-> <<>>]
        ELSE IF ~r.ok
        THEN [status |-> "ReallocFailed", val |-> 0, index |-> d.index,
              acct |-> acct, payer |-> payer_lamports,
              calls |-> <<"data.add_record", "realloc">>]
        ELSE IF ~w.ok
        THEN [status |-> "SerializeFailed", val |-> 0, index |-> d.index,
              acct |-> [acct EXCEPT !.data = w.data],
              payer |-> payer_lamports,
              calls |-> <<"data.add_record", "realloc", "serialize">>]
        ELSE IF ~t.ok
        THEN [status |-> "TransferFailed", val |-> 0, index |-> d.index,
              acct |-> [acct EXCEPT !.data = w.data],
              payer |-> payer_lamports,
              calls |-> <<"data.add_record", "realloc", "serialize",
                          "transfer">>]
        ELSE [status |-> "ok", val |-> d.val, index |-> d.index,
              acct |-> [acct EXCEPT !.lamports = t.to, !.data = w.data],
              payer |-> t.from,
              calls |-> <<"data.add_record", "realloc", "serialize",
                          "transfer">>]

\* NautilusIndex::add_record.  status is "ok", "panic" (an arithmetic
\* overflow with overflow checks on) or the step that returned the error;
\* calls are the calls add_record has made, in order.
add_record(index, acct, payer_lamports, table_name, original_len, borrowed, checks) ==
    LET d        == data_add_record(index, table_name, checks)
        required == required_rent(d.index)
        under    == required < acct.lamports
        amount   == rent_shortfall(required, acct.lamports)
        t        == transfer(payer_lamports, acct.lamports, amount)
        r        == realloc(acct.data, span(d.index), original_len, borrowed)
        w        == serialize_into(r.data, try_to_vec(d.index))
    IN  IF d.panic \/ (under /\ checks)
        THEN [status |-> "panic", val |-> 0, index |-> index, acct |-> acct,
              payer |-> payer_lamports, calls |-> <<>>]
        ELSE IF ~t.ok
        THEN [status |-> "TransferFailed", val |-> 0, index |-> d.index,
              acct |-> acct, payer |-> payer_lamports,
              calls |-> <<"data.add_record", "transfer">>]
        ELSE IF ~r.ok
        THEN [status |-> "ReallocFailed", val |-> 0, index |-> d.index,
              acct |-> [acct EXCEPT !.lamports = t.to], payer |-> t.from,
              calls |-> <<"data.add_record", "transfer", "realloc">>]
        ELSE IF ~w.ok
        THEN [status |-> "SerializeFailed", val |-> 0, index |-> d.index,
              acct |-> [acct EXCEPT !.lamports = t.to, !.data = w.data],
              payer |-> t.from,
              calls |-> <<"data.add_record", "transfer", "realloc",
                          "serialize">>]
        ELSE [status |-> "ok", val |-> d.val, index |-> d.index,
              acct |-> [acct EXCEPT !.lamports = t.to, !.data = w.data],
              payer |-> t.from,
              calls |-> <<"data.add_record", "transfer", "realloc",
                          "serialize">>]

\* create with a bug: the empty data is adopted before the account-creation
\* call has succeeded.
create_assigns_first(index, acct, payer_lamports, address_ok) ==
    LET data == EmptyIndex
        c    == create_record(acct, payer_lamports, data, address_ok)
    IN  IF ~c.ok
        THEN [status |-> "CreateFailed", index |-> data, acct |-> acct,
              payer |-> payer_lamports]
        ELSE [status |-> "ok", index |-> data, acct |-> c.acct,
              payer |-> c.payer]

\* NautilusCreate::create and create_with_payer for Create<NautilusIndex>.
create(index, acct, payer_lamports, address_ok) ==
    LET data == EmptyIndex
        c    == create_record(acct, payer_lamports, data, address_ok)
    IN  IF ~c.ok
        THEN [status |-> "CreateFailed", index |-> index, acct |-> acct,
              payer |-> payer_lamports]
        ELSE [status |-> "ok", index |-> data, acct |-> c.acct,
              payer |-> c.payer]

\* NautilusTransferLamports::transfer_lamports out of the Index account:
\* **from.try_borrow_mut_lamports()? -= amount, then
\* **to.mut_lamports()? += amount.  Each borrow fails when the lamports
\* RefCell of the account is already borrowed; each unsigned 64-bit
\* operation panics on overflow where the build checks it and wraps where
\* it does not.
transfer_lamports(from_lamports, to_lamports, amount, from_borrowed, to_borrowed, checks) ==
    LET debited  == (from_lamports - amount + U64Mod) % U64Mod
        credited == (to_lamports + amount) % U64Mod
    IN  IF from_borrowed
        THEN [status |-> "FromBorrowFailed", from |-> from_lamports,
              to |-> to_lamports]
        ELSE IF from_lamports < amount /\ checks
        THEN [status |-> "panic", from |-> from_lamports,
              to |-> to_lamports]
        ELSE IF to_borrowed
        THEN [status |-> "ToBorrowFailed", from |-> debited,
              to |-> to_lamports]
        ELSE IF to_lamports + amount >= U64Mod /\ checks
        THEN [status |-> "panic", from |-> from_lamports,
              to |-> to_lamports]
        ELSE [status |-> "ok", from |-> debited, to |-> credited]

(***************************************************************************)
(* State.                                                                  *)
(***************************************************************************)
VARIABLES
    account,          \* the Index account: [owner, lamports, data]
    fee_payer,        \* lamports of the fee payer's wallet
    handle,           \* the running unit of work and its NautilusIndex handle
    overflow_checks,  \* the build: TRUE panics on overflow, FALSE wraps
    issued,           \* per table, the counts returned in committed units
    clobbered,        \* a unit has committed counts of a handle made by new
    txs,              \* units of work committed
    deposits,         \* deposits made
    last              \* the last operation and what it returned

vars == << account, fee_payer, handle, overflow_checks, issued, clobbered,
           txs, deposits, last >>

\* The address before the account is created: owned by the system program,
\* no lamports, no data.
NoAccount == [owner |-> "system", lamports |-> 0, data |-> <<>>]

NoSnapshot == [account |-> NoAccount, fee_payer |-> 0]

\* No unit of work is running.
\* pc: "idle", "running", or "failed" (an operation has returned an error,
\* or has written to an account the program does not own: the unit of work
\* can go on but can only end by aborting);
\* origin: how the unit got its handle ("none", "new", "loaded", "created");
\* data: the handle's NautilusIndexData; snapshot: the accounts when the unit
\* started; adds: add_record calls made; got: the (table, count) pairs the
\* successful ones returned.
Idle == [pc |-> "idle", origin |-> "none", data |-> EmptyIndex,
         snapshot |-> NoSnapshot, adds |-> 0, got |-> <<>>, moves |-> 0]

\* What the fee payer's wallet may hold at the start: nothing, enough to
\* create the account and register table "a" but not "bc", or plenty.
PayerFunds == { 0,
                minimum_balance(span(EmptyIndex)) + 9 * 6960,
                minimum_balance(span(EmptyIndex)) + 64 * 6960 }

\* Lamports of one outside deposit.
DepositAmounts == { 1 }

\* Amounts asked of transfer_lamports: a lamport, and the largest u64.
TransferAmounts == { 1, U64Mod - 1 }

\* The state of the account's data RefCell when the caller's code calls an
\* operation: not borrowed, or borrowed (shared or mutably) by the caller.
BorrowStates == { "none", "shared", "mut" }

\* An operation and what it returned: input is the state of the data
\* RefCell (load, add_record) or whether the address matches the derivation
\* (create); some and val are the count returned, if any; calls are the
\* calls an add_record has made, in order; previewed tells that the
\* operation just before an add_record was a get_next_count of its table.
Result(op, table, input, status, some, val) ==
    [op |-> op, table |-> table, input |-> input, status |-> status,
     some |-> some, val |-> val, calls |-> <<>>, previewed |-> FALSE]

NoTable == <<>>

Init ==
    /\ account = NoAccount
    /\ fee_payer \in PayerFunds
    /\ handle = Idle
    /\ overflow_checks \in BOOLEAN
    /\ issued = [t \in Tables |-> <<>>]
    /\ clobbered = FALSE
    /\ txs = 0
    /\ deposits = 0
    /\ last = Result("init", NoTable, "none", "ok", FALSE, 0)

Active == handle.pc # "idle"
HasHandle == Active /\ handle.origin # "none"

\* The counts of the pairs of got, for table t, in order.
RECURSIVE CountsOf(_, _)
CountsOf(got, t) ==
    IF got = <<>> THEN <<>>
    ELSE IF Head(got)[1] = t THEN <<Head(got)[2]>> \o CountsOf(Tail(got), t)
    ELSE CountsOf(Tail(got), t)

(***************************************************************************)
(* The runtime: a unit of work starts, commits or aborts; an abort         *)
(* restores the accounts as they were when the unit started.  A failure of *)
(* an operation aborts the unit of work: a failed unit does not commit.    *)
(***************************************************************************)
Begin ==
    /\ handle.pc = "idle"
    /\ txs < MaxTx
    /\ handle' = [Idle EXCEPT !.pc = "running",
                              !.snapshot = [account |-> account,
                                            fee_payer |-> fee_payer]]
    /\ last' = Result("begin", NoTable, "none", "ok", FALSE, 0)
    /\ UNCHANGED << account, fee_payer, overflow_checks, issued, clobbered,
                    txs, deposits >>

Commit ==
    /\ handle.pc = "running"
    /\ issued' = [t \in Tables |-> issued[t] \o CountsOf(handle.got, t)]
    /\ handle' = Idle
    /\ clobbered' = (clobbered \/ (handle.origin = "new"
                                   /\ handle.got # <<>>))
    /\ txs' = txs + 1
    /\ last' = Result("commit", NoTable, "none", "ok", FALSE, 0)
    /\ UNCHANGED << account, fee_payer, overflow_checks, deposits >>

\* What an abort leaves of the handle and the accounts.
Aborted ==
    /\ handle' = Idle
    /\ account' = handle.snapshot.account
    /\ fee_payer' = handle.snapshot.fee_payer

Abort ==
    /\ Active
    /\ Aborted
    /\ last' = Result("abort", NoTable, "none", "ok", FALSE, 0)
    /\ UNCHANGED << overflow_checks, issued, clobbered, txs, deposits >>

\* A transfer into the Index account by another transaction.
Deposit(amount) ==
    /\ handle.pc = "idle"
    /\ deposits < MaxDeposits
    /\ account' = [account EXCEPT !.lamports = @ + amount]
    /\ deposits' = deposits + 1
    /\ last' = Result("deposit", NoTable, "none", "ok", FALSE, 0)
    /\ UNCHANGED << fee_payer, handle, overflow_checks, issued, clobbered,
                    txs >>

(***************************************************************************)
(* The operations of the handle, called by the code of the running unit.   *)
(***************************************************************************)
\* NautilusIndex::new: a handle with empty data, no read of the account.
New ==
    /\ Active
    /\ handle.origin = "none"
    /\ handle' = [handle EXCEPT !.origin = "new", !.data = EmptyIndex]
    /\ last' = Result("new", NoTable, "none", "ok", FALSE, 0)
    /\ UNCHANGED << account, fee_payer, overflow_checks, issued, clobbered,
                    txs, deposits >>

\* NautilusIndex::load: on an error the caller has no handle.
Load(borrowed) ==
    /\ Active
    /\ handle.origin = "none"
    /\ LET o == load(account, borrowed)
       IN  /\ handle' = IF o.status = "ok"
                        THEN [handle EXCEPT !.origin = "loaded",
                                            !.data = o.index]
                        ELSE [handle EXCEPT !.pc = "failed"]
           /\ last' = Result("load", NoTable, borrowed, o.status, FALSE, 0)
    /\ UNCHANGED << account, fee_payer, overflow_checks, issued, clobbered,
                    txs, deposits >>

\* NautilusIndex::get_count
GetCount(table_name) ==
    /\ HasHandle
    /\ LET c == data_get_count(handle.data, table_name)
       IN  last' = Result("get_count", table_name, "none", "ok", c.some,
                         c.val)
    /\ UNCHANGED << account, fee_payer, handle, overflow_checks, issued,
                    clobbered, txs, deposits >>

\* get_next_count with a bug: the previewed count is stored in the handle's
\* data, as add_record would.
GetNextCountStores(table_name) ==
    /\ HasHandle
    /\ LET n == data_get_next_count(handle.data, table_name, FALSE)
           r == data_add_record(handle.data, table_name, FALSE)
       IN  /\ last' = Result("get_next_count", table_name, "none", "ok",
                             TRUE, n.val)
           /\ handle' = [handle EXCEPT !.data = r.index]
    /\ UNCHANGED << account, fee_payer, overflow_checks, issued, clobbered,
                    txs, deposits >>

\* NautilusIndex::get_next_count; a panic aborts the unit of work.
GetNextCount(table_name) ==
    /\ HasHandle
    /\ LET n == data_get_next_count(handle.data, table_name, overflow_checks)
       IN  IF n.panic
           THEN /\ Aborted
                /\ last' = Result("get_next_count", table_name, "none",
                                  "panic", FALSE, 0)
           ELSE /\ last' = Result("get_next_count", table_name, "none",
                                  "ok", TRUE, n.val)
                /\ UNCHANGED << account, fee_payer, handle >>
    /\ UNCHANGED << overflow_checks, issued, clobbered, txs, deposits >>

\* NautilusIndex::add_record with the unit's fee payer, called by a unit in
\* which no operation has failed.  A panic aborts the unit of work; a write
\* to an account the program does not own is refused by the runtime when
\* the instruction ends.
AddRecord(table_name, borrowed) ==
    /\ HasHandle
    /\ handle.pc = "running"
    /\ handle.adds < MaxAdds
    /\ LET o == add_record(handle.data, account, fee_payer, table_name,
                           Len(handle.snapshot.account.data), borrowed,
                           overflow_checks)
       IN  IF o.status = "panic"
           THEN /\ Aborted
                /\ last' = Result("add_record", table_name, borrowed,
                                  "panic", FALSE, 0)
           ELSE /\ account' = o.acct
                /\ fee_payer' = o.payer
                /\ handle' = [handle EXCEPT
                      !.data = o.index,
                      !.adds = @ + 1,
                      !.got = IF o.status = "ok"
                              THEN Append(@, <<table_name, o.val>>)
                              ELSE @,
                      !.pc = IF o.status # "ok"
                                \/ (account.owner # "program"
                                    /\ o.acct.data # account.data)
                             THEN "failed" ELSE @]
                /\ last' = [Result("add_record", table_name, borrowed,
                                    o.status, o.status = "ok", o.val)
                               EXCEPT !.calls = o.calls,
                                      !.previewed =
                                          /\ last.op = "get_next_count"
                                          /\ last.status = "ok"
                                          /\ last.table = table_name]
    /\ UNCHANGED << overflow_checks, issued, clobbered, txs, deposits >>

\* What create and create_with_payer do to the state, given the outcome o.
Created(op, address_ok, o) ==
    /\ account' = o.acct
    /\ fee_payer' = o.payer
    /\ handle' = [handle EXCEPT
          !.data = o.index,
          !.origin = IF o.status = "ok" THEN "created" ELSE @,
          !.pc = IF o.status = "ok" THEN @ ELSE "failed"]
    /\ last' = Result(op, NoTable, address_ok, o.status, FALSE, 0)
    /\ UNCHANGED << overflow_checks, issued, clobbered, txs, deposits >>

\* NautilusCreate::create: the payer is the wallet of the Create wrapper.
Create(address_ok) ==
    /\ HasHandle
    /\ Created("create", address_ok,
               create(handle.data, account, fee_payer, address_ok))

\* NautilusCreate::create_with_payer: the payer is given by the caller.
CreateWithPayer(address_ok) ==
    /\ HasHandle
    /\ Created("create_with_payer", address_ok,
               create(handle.data, account, fee_payer, address_ok))

\* NautilusTransferLamports::transfer_lamports from the Index account to
\* the fee payer's wallet.  The call takes the handle by value: the unit
\* has no handle afterwards.  A panic aborts the unit of work; the runtime
\* refuses, when the instruction ends, a debit of an account the program
\* does not own (the Index account before it is created, the wallet) and
\* balances whose sum has changed.
TransferLamports(amount, from_borrowed, to_borrowed) ==
    /\ HasHandle
    /\ handle.pc = "running"
    /\ handle.moves < MaxMoves
    /\ LET o == transfer_lamports(account.lamports, fee_payer, amount,
                                  from_borrowed, to_borrowed,
                                  overflow_checks)
       IN  IF o.status = "panic"
           THEN /\ Aborted
                /\ last' = Result("transfer_lamports", NoTable,
                                  << from_borrowed, to_borrowed >>, "panic",
                                  FALSE, amount)
           ELSE /\ account' = [account EXCEPT !.lamports = o.from]
                /\ fee_payer' = o.to
                /\ handle' = [handle EXCEPT
                      !.origin = "none",
                      !.data = EmptyIndex,
                      !.moves = @ + 1,
                      !.pc = IF \/ o.status # "ok"
                                \/ (account.owner # "program"
                                    /\ o.from # account.lamports)
                                \/ o.to < fee_payer
                                \/ o.from + o.to
                                      # account.lamports + fee_payer
                             THEN "failed" ELSE @]
                /\ last' = Result("transfer_lamports", NoTable,
                                  << from_borrowed, to_borrowed >>,
                                  o.status, FALSE, amount)
    /\ UNCHANGED << overflow_checks, issued, clobbered, txs, deposits >>

Next ==
    \/ Begin
    \/ Commit
    \/ Abort
    \/ \E amount \in DepositAmounts : Deposit(amount)
    \/ New
    \/ \E b \in BorrowStates : Load(b)
    \/ \E t \in Tables : GetCount(t)
    \/ \E t \in Tables : GetNextCount(t)
    \/ \E t \in Tables, b \in BorrowStates : AddRecord(t, b)
    \/ \E ok \in BOOLEAN : Create(ok)
    \/ \E ok \in BOOLEAN : CreateWithPayer(ok)

Spec == Init /\ [][Next]_vars

\* The program with the withdrawals of lamports from the Index account.
NextWithTransfers ==
    \/ Next
    \/ \E amount \in TransferAmounts, f \in BOOLEAN, t \in BOOLEAN :
          TransferLamports(amount, f, t)

SpecWithTransfers == Init /\ [][NextWithTransfers]_vars

(***************************************************************************)
(* Properties.                                                             *)
(***************************************************************************)
\* The counts issued for table t so far: by the committed units and by the
\* running one.
IssuedFor(t) == issued[t] \o CountsOf(handle.got, t)

AddRecordReturned == last.op = "add_record" /\ last.status # "panic"
AddRecordOk == last.op = "add_record" /\ last.status = "ok"

\* C1: from a freshly created Index, the k-th successful add_record(T)
\* returns k, and get_count(T) is k afterwards (for handles obtained by
\* create or load).
C1_KthCallReturnsK ==
    (AddRecordOk /\ ~clobbered /\ handle.origin # "new") =>
        LET k == Len(IssuedFor(last.table))
        IN  /\ last.val = k
            /\ data_get_count(handle.data, last.table) = SomeCount(k)

\* C2: after any add_record call that returns, made through a handle
\* obtained by create or load on the existing Index account, the length of
\* the account's buffer is the span of the handle's Counter Map and the
\* account's balance is at least the minimum balance of that length.
C2_ResizeSafety ==
    (AddRecordReturned /\ account.owner = "program"
     /\ handle.origin # "new") =>
        /\ Len(account.data) = span(handle.data)
        /\ account.lamports >= minimum_balance(Len(account.data))

\* The amount add_record asks the fee payer for: required_rent of the data
\* after the mutation, minus the account's lamports, as a u64.
Shortfall(index, acct, table_name) ==
    (required_rent(data_add_record(index, table_name, FALSE).index)
        - acct.lamports + U64Mod) % U64Mod

\* C3: an add_record called when the fee payer holds less than the computed
\* shortfall fails with the transfer error, and leaves the account (buffer
\* and balance) and the fee payer's balance as they were.
C3_TransferFailureChangesNothing ==
    [][ (last'.op = "add_record" /\ last'.status # "panic"
         /\ fee_payer < Shortfall(handle.data, account, last'.table))
        => (/\ last'.status = "TransferFailed"
            /\ account' = account
            /\ fee_payer' = fee_payer) ]_vars

\* C3 witness: the transfer has failed on an existing Index account that
\* holds a registered table.
C3_Witness ==
    /\ last.op = "add_record"
    /\ last.status = "TransferFailed"
    /\ account.owner = "program"
    /\ try_from_slice(account.data).index # EmptyIndex

\* C4: add_record(B) leaves the count of every other table as it was,
\* absent tables included.
C4_OtherTablesUnchanged ==
    [][ (last'.op = "add_record" /\ last'.status # "panic")
        => \A A \in Tables \ {last'.table} :
              data_get_count(handle'.data, A) = data_get_count(handle.data, A)
      ]_vars

\* C4 witness: table "bc" was added to after table "a" had reached count 2,
\* which it still has.
C4_Witness ==
    /\ AddRecordOk
    /\ last.table = <<98, 99>>
    /\ data_get_count(handle.data, <<97>>) = SomeCount(2)

\* C5: get_count and get_next_count that return change neither the handle's
\* Counter Map nor the account nor the fee payer; get_next_count of a table
\* never registered returns 1; the same call made again returns the same.
C5_QueriesHaveNoSideEffect ==
    [][ (last'.op \in {"get_count", "get_next_count"}
         /\ last'.status = "ok")
        => (/\ handle' = handle
            /\ account' = account
            /\ fee_payer' = fee_payer
            /\ (last'.op = "get_next_count"
                /\ last'.table \notin DOMAIN handle.data) => last'.val = 1
            /\ last'.op = "get_next_count" =>
                  last'.val = data_get_next_count(handle'.data, last'.table,
                                                  FALSE).val
            /\ last'.op = "get_count" =>
                  [some |-> last'.some, val |-> last'.val]
                      = data_get_count(handle'.data, last'.table)) ]_vars

\* C5 witness: get_next_count has returned 1 for a table not registered,
\* while another table is registered.
C5_Witness ==
    /\ last.op = "get_next_count"
    /\ last.status = "ok"
    /\ last.val = 1
    /\ last.table \notin DOMAIN handle.data
    /\ handle.data # EmptyIndex

\* The Counter Map the account's buffer holds (empty when it holds none).
Persisted == try_from_slice(account.data).index

PositiveCounts(index) == \A t \in DOMAIN index : index[t] > 0

\* C6: every registered table has a strictly positive count, in the
\* handle's Counter Map and in the account, and add_record never removes a
\* registered table.
C6_CountsPositiveAndKept ==
    /\ [](PositiveCounts(handle.data) /\ PositiveCounts(Persisted))
    /\ [][ (last'.op = "add_record" /\ last'.status # "panic")
           => DOMAIN handle.data \subseteq DOMAIN handle'.data ]_vars

\* C7: after a successful create or add_record, and as long as the unit's
\* handle (obtained by create or load) has seen no failure, the account's
\* whole buffer decodes to the handle's Counter Map, which is what load
\* returns.
C7_BufferDecodesToHandleData ==
    ( \/ AddRecordOk
      \/ (last.op \in {"create", "create_with_payer"} /\ last.status = "ok")
      \/ (handle.pc = "running" /\ handle.origin \in {"created", "loaded"}) )
    => /\ try_from_slice(account.data) = [ok |-> TRUE, index |-> handle.data]
       /\ load(account, "none") = [status |-> "ok", index |-> handle.data]

\* C7 witness: add_record has succeeded and the account holds two tables,
\* one of them with a count above 1.
C7_Witness ==
    /\ AddRecordOk
    /\ DOMAIN handle.data = Tables
    /\ \E t \in Tables : handle.data[t] > 1
    /\ Persisted = handle.data

\* C8: load returns LoadDataFailed when the buffer cannot be borrowed,
\* whatever it holds; DeserializeDataFailed when it is borrowed and is not an
\* encoding of a Counter Map (the empty buffer is none); else a handle with
\* the decoded map.  It changes neither the account nor the fee payer.
C8_LoadClassifiesFailures ==
    [][ last'.op = "load" =>
          /\ account' = account
          /\ fee_payer' = fee_payer
          /\ last'.input = "mut" =>
                (last'.status = "LoadDataFailed" /\ handle'.origin = "none")
          /\ (last'.input # "mut" /\ ~try_from_slice(account.data).ok) =>
                (last'.status = "DeserializeDataFailed"
                 /\ handle'.origin = "none")
          /\ (last'.input # "mut" /\ account.data = <<>>) =>
                last'.status = "DeserializeDataFailed"
          /\ (last'.input # "mut" /\ try_from_slice(account.data).ok) =>
                (/\ last'.status = "ok"
                 /\ handle'.origin = "loaded"
                 /\ handle'.data = try_from_slice(account.data).index) ]_vars

\* C8 witness: the borrow has failed on a buffer that is also not an
\* encoding (it is empty).
C8_Witness ==
    /\ last.op = "load"
    /\ last.status = "LoadDataFailed"
    /\ account.data = <<>>

\* C9: the counts returned for a table by the committed units, which run
\* one after the other on handles obtained by create or load, are 1, 2, ..., n
\* in this order (so pairwise distinct).
C9_CommittedCountsAreOneToN ==
    ~clobbered =>
        \A t \in Tables : \A i \in 1 .. Len(issued[t]) : issued[t][i] = i

\* C10: a create or create_with_payer that succeeds leaves the handle with
\* the empty Counter Map and the account allocated with the empty map's
\* span; it fails when the address is occupied, the payer cannot cover the
\* minimum balance or the address does not match; one that fails leaves the
\* handle's Counter Map, the account and the fee payer as they were.
C10_CreateAdoptsOnSuccessOnly ==
    [][ last'.op \in {"create", "create_with_payer"} =>
          /\ last'.status = "ok" =>
                (/\ handle'.data = EmptyIndex
                 /\ account'.owner = "program"
                 /\ Len(account'.data) = span(EmptyIndex)
                 /\ account'.lamports >= minimum_balance(span(EmptyIndex)))
          /\ (\/ account.owner = "program"
              \/ account.lamports > 0
              \/ fee_payer < minimum_balance(span(EmptyIndex))
              \/ ~last'.input) => last'.status # "ok"
          /\ last'.status # "ok" =>
                (/\ handle'.data = handle.data
                 /\ account' = account
                 /\ fee_payer' = fee_payer) ]_vars

\* C10 witness: create has succeeded on a handle whose Counter Map an
\* earlier add_record of the unit had filled.
C10_Witness ==
    /\ last.op = "create"
    /\ last.status = "ok"
    /\ handle.adds > 0
    /\ handle.data = EmptyIndex

\* The handle of the running unit was obtained by create or load.
FromAccount == handle.origin \in {"created", "loaded"}

\* The balance add_record requires for table_name: the minimum balance of
\* the span of the data once the record is added.
RequiredAfter(index, table_name) ==
    required_rent(data_add_record(index, table_name, FALSE).index)

\* add_record on table_name gets as far as the subtraction.
Subtracts(index, table_name) ==
    ~data_add_record(index, table_name, overflow_checks).panic

\* C11: whenever add_record, on a handle obtained by create or load,
\* computes required balance - current balance, the required balance is at
\* least the current balance, also after an outside deposit and for an
\* already registered table.
C11_ShortfallNeverUnderflows ==
    [][ (/\ last'.op = "add_record"
         /\ FromAccount
         /\ Subtracts(handle.data, last'.table))
        => RequiredAfter(handle.data, last'.table) >= account.lamports ]_vars

\* C12: when the account holds more than the required balance, add_record
\* (the buffer not being borrowed) takes the shortfall as 0: it succeeds,
\* returns the new count and debits nothing from the fee payer.
C12_SurplusMeansNoShortfall ==
    [][ (/\ last'.op = "add_record"
         /\ FromAccount
         /\ Subtracts(handle.data, last'.table)
         /\ last'.input = "none"
         /\ RequiredAfter(handle.data, last'.table) < account.lamports)
        => (/\ last'.status = "ok"
            /\ last'.val = data_add_record(handle.data, last'.table,
                                           FALSE).val
            /\ fee_payer' = fee_payer) ]_vars

Called(name, calls) == \E i \in 1 .. Len(calls) : calls[i] = name

\* C13: add_record calls the transfer only when the shortfall is positive;
\* with a shortfall of 0 it makes no transfer call.
C13_NoTransferCallWithoutShortfall ==
    [][ (/\ last'.op = "add_record"
         /\ last'.status # "panic"
         /\ FromAccount
         /\ Shortfall(handle.data, account, last'.table) = 0)
        => ~Called("transfer", last'.calls) ]_vars

\* The steps of add_record, in the order of the source.
StepOrder == << "data.add_record", "transfer", "realloc", "serialize" >>

\* C14: the calls of one add_record are made in the order Counter Map
\* mutation, transfer, resize, write; the transfer is completed before the
\* resize and the write, and if it fails neither is made.
C14_StepsInOrder ==
    [][ (last'.op = "add_record" /\ last'.status # "panic") =>
          LET c == last'.calls
              due == Shortfall(handle.data, account, last'.table)
          IN  /\ Len(c) >= 2
              /\ c = SubSeq(StepOrder, 1, Len(c))
              /\ handle'.data = data_add_record(handle.data, last'.table,
                                                FALSE).index
              /\ last'.status = "TransferFailed" =>
                    (Len(c) = 2 /\ account' = account)
              /\ Called("realloc", c) =>
                    (/\ account'.lamports = account.lamports + due
                     /\ fee_payer' = fee_payer - due)
              /\ last'.status = "ok" <=> c = StepOrder
              /\ last'.status = "ReallocFailed" =>
                    account'.data = account.data ]_vars

\* C14 witness: the transfer has moved lamports and the resize that
\* follows it has failed, so the buffer is not written.
C14_Witness ==
    /\ last.op = "add_record"
    /\ last.status = "ReallocFailed"
    /\ last.calls = SubSeq(StepOrder, 1, 3)
    /\ fee_payer < handle.snapshot.fee_payer
    /\ account.lamports = required_rent(handle.data)
    /\ Len(account.data) < span(handle.data)

\* C15: an add_record that returns an error leaves the handle's Counter
\* Map as it was, so get_count and get_next_count return what they returned
\* before the call.
C15_FailedAddRecordLeavesHandle ==
    [][ (/\ last'.op = "add_record"
         /\ last'.status \notin {"ok", "panic"}
         /\ FromAccount)
        => \A t \in Tables :
              /\ data_get_count(handle'.data, t)
                    = data_get_count(handle.data, t)
              /\ data_get_next_count(handle'.data, t, FALSE)
                    = data_get_next_count(handle.data, t, FALSE) ]_vars

\* C16: a successful add_record credits the account with exactly the
\* required balance of the new span minus its balance, debits the fee payer
\* by the same amount, and leaves the account's balance equal to that
\* required balance.
C16_FundingIsExactAndConserved ==
    [][ (last'.op = "add_record" /\ last'.status = "ok") =>
          LET required == RequiredAfter(handle.data, last'.table)
              due      == required - account.lamports
          IN  /\ due >= 0
              /\ account'.lamports = account.lamports + due
              /\ fee_payer' = fee_payer - due
              /\ account'.lamports + fee_payer'
                    = account.lamports + fee_payer
              /\ account'.lamports = required
              /\ account'.lamports = required_rent(handle'.data) ]_vars

\* C16 witness: a unit that loaded its handle has added a record the fee
\* payer has paid for.
C16_Witness ==
    /\ AddRecordOk
    /\ handle.origin = "loaded"
    /\ fee_payer < handle.snapshot.fee_payer
    /\ account.lamports > handle.snapshot.account.lamports
    /\ account.lamports = required_rent(handle.data)

\* C17: a successful add_record on a handle obtained by create or load
\* leaves the buffer's length (and the required balance) unchanged for a
\* registered table and strictly increases it for a new one.
C17_LengthNeverDecreases ==
    [][ (last'.op = "add_record" /\ last'.status = "ok" /\ FromAccount) =>
          IF last'.table \in DOMAIN handle.data
          THEN /\ Len(account'.data) = Len(account.data)
               /\ RequiredAfter(handle.data, last'.table)
                     = required_rent(handle.data)
          ELSE Len(account'.data) > Len(account.data) ]_vars

\* C17 witness: a loaded handle has incremented a registered table, with a
\* second table in the map, and the buffer has the length it had when the
\* unit started.
C17_Witness ==
    /\ AddRecordOk
    /\ handle.origin = "loaded"
    /\ DOMAIN handle.data = Tables
    /\ handle.data[last.table] > 1
    /\ handle.adds = 1
    /\ Len(account.data) = Len(handle.snapshot.account.data)

\* C18: a successful add_record(T) returns what get_next_count(T) returns
\* in the state before it (and has returned, when it was the call just
\* before), and get_count(T) right after is that value.
C18_PreviewIsWhatAddRecordReturns ==
    [][ (last'.op = "add_record" /\ last'.status = "ok") =>
          /\ last'.val = data_get_next_count(handle.data, last'.table,
                                             FALSE).val
          /\ last'.previewed => last'.val = last.val
          /\ data_get_count(handle'.data, last'.table)
                = SomeCount(last'.val) ]_vars

\* C18 witness: get_next_count has previewed 2 and the add_record called
\* right after it has returned 2.
C18_Witness ==
    /\ AddRecordOk
    /\ last.previewed
    /\ last.val = 2
    /\ data_get_count(handle.data, last.table) = SomeCount(2)

\* C19: transfer_lamports out of the existing Index account, on a handle
\* obtained by create or load, either debits the
\* the account by the amount and credits the destination by the same
\* amount, or returns an error (also when the amount exceeds the account's
\* balance) with both balances unchanged; no balance wraps around.
C19_TransferLamportsAllOrNothing ==
    [][ (/\ last'.op = "transfer_lamports"
         /\ last'.status # "panic"
         /\ account.owner = "program"
         /\ FromAccount) =>
          \/ /\ last'.status = "ok"
             /\ last'.val <= account.lamports
             /\ account'.lamports = account.lamports - last'.val
             /\ fee_payer' = fee_payer + last'.val
          \/ /\ last'.status # "ok"
             /\ account'.lamports = account.lamports
             /\ fee_payer' = fee_payer ]_vars

====
